---- MODULE Spec2Model ----
(***************************************************************************)
(* Model of klippy/extras/filasense.py: a filament diameter sensor that    *)
(* converts ADC samples to a diameter, keeps a position-indexed delay FIFO *)
(* and periodically emits an extrusion multiplier (M221).                  *)
(*                                                                         *)
(* Units: diameters are integers in 1/1000 mm, extruder positions and the  *)
(* measurement delay are integers in mm, time is in timer periods.  The    *)
(* reactor is cooperative: every callback and command runs atomically.     *)
(***************************************************************************)
EXTENDS Integers, Sequences, FiniteSets, TLC

\* ------------------------------------------------------------------------
\* Bounds of the model
\* ------------------------------------------------------------------------
MaxPos == 4

\* largest extruder position in the runs where the extruder only advances
MaxAdvance == 5

\* ------------------------------------------------------------------------
\* Configuration (FilaSense.__init__)
\* ------------------------------------------------------------------------
diameter_1 == 1500
diameter_2 == 2000
raw_1 == 6250
raw_2 == 8750
measurement_interval == 2
nominal_diameter == 1750
measurement_delay == 3
max_difference == 200
max_diameter == nominal_diameter + max_difference
min_diameter == nominal_diameter - max_difference
runout_min_diameter == 1000
runout_max_diameter == max_diameter

\* reactor.NOW / reactor.NEVER as used for the timer's wake time; a wake
\* time of TickInterval means "one time unit from now".
NOW == 0
NEVER == -1
TickInterval == 1

\* ADC readings delivered by the mcu, in units of 1/20000 of full scale
\* (read_value = k / 20000), so that read_value * 10000 = k / 2.
Samples == {12500, 15501, 17500}

Positions == 0..MaxPos

VARIABLES
    fifo,       \* self.fifo: sequence of <<epos_projected, diameter>>
    raw,        \* self.raw
    diameter,   \* self.diameter
    enabled,    \* self.enabled
    logging,    \* self.logging
    timer,      \* wake time of self.timer: NEVER, NOW or TickInterval
    toolhead,   \* self.toolhead is set (klippy:ready has been handled)
    cfg,        \* configured booleans: enabled, use_current_diameter_while_delay
    epos,       \* extruder position reported by toolhead.get_position()[3]
    out,        \* M221 percentages emitted by the last operation
    lastM221,   \* the most recent M221 percentage emitted so far
    runout,     \* note_filament_present arguments of the last operation
    logged,     \* "Filament diameter: ..." reported by the last tick
    ack,        \* respond_info text of the last command
    op,         \* name of the last operation
    tick,       \* locals of the last timer_callback
    enableSeen, \* an ENABLE command has switched the sensor on
    cal,        \* configured calibration: diameter_1, diameter_2, raw_1, raw_2
    sampled,    \* adc_callback has run at least once
    status,     \* result of the last get_status call
    first       \* the entry enqueued into an empty queue and still awaited

vars == <<fifo, raw, diameter, enabled, logging, timer, toolhead, cfg, epos,
          out, lastM221, runout, logged, ack, op, tick, enableSeen, cal,
          sampled, status, first>>

\* ------------------------------------------------------------------------
\* Pure helpers
\* ------------------------------------------------------------------------
\* Python round() on num/den (den > 0): nearest integer, ties to even.
RoundHalfEven(num, den) ==
    LET q == num \div den
        r == num % den
    IN  IF 2 * r < den THEN q
        ELSE IF 2 * r > den THEN q + 1
        ELSE IF q % 2 = 0 THEN q ELSE q + 1

\* round(read_value * 10000) for read_value = k / 20000
ScaleRaw(k) == RoundHalfEven(k, 2)

\* faulty variant: the offset from the anchor is taken from raw_2
Interpolate_FromRaw2(d1, d2, r1, r2, r) ==
    LET sgn == IF r2 > r1 THEN 1 ELSE -1
        num == sgn * ((d2 - d1) * (r - r2) + d1 * (r2 - r1))
        den == sgn * (r2 - r1)
    IN  10 * RoundHalfEven(num, 10 * den)

\* round((diameter_2 - diameter_1) / (raw_2 - raw_1) * (raw - raw_1)
\*       + diameter_1, 2), in 1/1000 mm
Interpolate(d1, d2, r1, r2, r) ==
    LET sgn == IF r2 > r1 THEN 1 ELSE -1
        num == sgn * ((d2 - d1) * (r - r1) + d1 * (r2 - r1))
        den == sgn * (r2 - r1)
    IN  10 * RoundHalfEven(num, 10 * den)

\* faulty variant: the interval is left out of the comparison with the tail
MaybeEnqueue_NoInterval(q, epos_projected, d) ==
    IF q = <<>> \/ epos_projected >= q[Len(q)][1]
    THEN Append(q, <<epos_projected, d>>)
    ELSE q

\* faulty variant: nothing is appended to an empty FIFO
MaybeEnqueue_NoEmptyCheck(q, epos_projected, d) ==
    IF q # <<>> /\ epos_projected >= q[Len(q)][1] + measurement_interval
    THEN Append(q, <<epos_projected, d>>)
    ELSE q

\* faulty variant: entries are spaced by half the measurement interval
MaybeEnqueue_HalfInterval(q, epos_projected, d) ==
    IF q = <<>> \/ epos_projected >= q[Len(q)][1] + measurement_interval \div 2
    THEN Append(q, <<epos_projected, d>>)
    ELSE q

\* line 81: append to the FIFO tail if it is empty or the interval has passed
MaybeEnqueue(q, epos_projected, d) ==
    IF q = <<>> \/ epos_projected >= q[Len(q)][1] + measurement_interval
    THEN Append(q, <<epos_projected, d>>)
    ELSE q

\* faulty variant: the upper runout bound is not checked
FilamentPresent_NoUpper(d) == runout_min_diameter <= d

\* line 86
FilamentPresent(d) == runout_min_diameter <= d /\ d <= runout_max_diameter

\* faulty variant: the projected position is compared instead of epos
HeadReached_Projected(q, e) == e + measurement_delay >= q[1][1]

\* line 90: has the extruder position of the FIFO head been reached
HeadReached(q, e) == e >= q[1][1]

\* faulty variant: the delay phase always uses the live reading
ResolveDiameter_AlwaysLive(q, e, d, use_current) ==
    IF HeadReached(q, e) THEN q[1][2] ELSE d

\* faulty variant: the newest entry is used instead of the oldest
ResolveDiameter_Newest(q, e, d, use_current) ==
    IF HeadReached(q, e) THEN q[Len(q)][2]
    ELSE IF use_current THEN d
    ELSE nominal_diameter

\* lines 90-98: the diameter to use before the plausibility check
ResolveDiameter(q, e, d, use_current) ==
    IF HeadReached(q, e) THEN q[1][2]
    ELSE IF use_current THEN d
    ELSE nominal_diameter

\* faulty variant: the lower plausibility bound is not checked
Plausible_NoLower(d) == d <= max_diameter

\* lines 100-101
Plausible(d) == min_diameter <= d /\ d <= max_diameter

PlausibleOrNominal(d) == IF Plausible(d) THEN d ELSE nominal_diameter

\* line 103: round((nominal_diameter / d) ** 2 * 100)
Multiplier(d) == RoundHalfEven(100 * nominal_diameter * nominal_diameter, d * d)

\* faulty variant: the diameter is reported on every tick while logging is on
respond_info_EveryTick(appended, flag) == flag

\* lines 81-84: the diameter is reported inside the append branch
respond_info(appended, flag) == appended /\ flag

\* faulty variant: the callback never reschedules itself
NextWake_Never(en) == NEVER

\* lines 109-112: the wake time returned by timer_callback
NextWake(en) == IF en THEN TickInterval ELSE NEVER

NoLocals == [epos |-> 0, q |-> <<>>, appended |-> FALSE, present |-> FALSE,
             popped |-> <<>>, dtu0 |-> 0, dtu |-> 0, error |-> FALSE]

\* ------------------------------------------------------------------------
\* Initial state: FilaSense.__init__
\* ------------------------------------------------------------------------
\* the calibration anchors of the default configuration
DefaultCal == [diameter_1 |-> diameter_1, diameter_2 |-> diameter_2,
               raw_1 |-> raw_1, raw_2 |-> raw_2]

\* faulty variant: self.diameter keeps the value assigned on line 28
Construct_NominalDiameter(c) ==
    /\ fifo = <<>>
    /\ raw = 0
    /\ diameter = nominal_diameter
    /\ cal = c
    /\ cfg \in [enabled : BOOLEAN, use_current_diameter_while_delay : BOOLEAN]
    /\ enabled = cfg.enabled
    /\ logging \in BOOLEAN
    /\ timer = NEVER
    /\ toolhead = FALSE
    /\ epos = 0
    /\ out = <<>>
    /\ lastM221 = <<>>
    /\ runout = <<>>
    /\ logged = FALSE
    /\ ack = ""
    /\ op = "init"
    /\ tick = NoLocals
    /\ enableSeen = FALSE
    /\ sampled = FALSE
    /\ status = <<>>
    /\ first = <<>>

\* FilaSense.__init__ with the calibration c
Construct(c) ==
    /\ fifo = <<>>
    /\ raw = 0
    /\ diameter = 0
    /\ cal = c
    /\ cfg \in [enabled : BOOLEAN, use_current_diameter_while_delay : BOOLEAN]
    /\ enabled = cfg.enabled
    /\ logging \in BOOLEAN
    /\ timer = NEVER
    /\ toolhead = FALSE
    /\ epos = 0
    /\ out = <<>>
    /\ lastM221 = <<>>
    /\ runout = <<>>
    /\ logged = FALSE
    /\ ack = ""
    /\ op = "init"
    /\ tick = NoLocals
    /\ enableSeen = FALSE
    /\ sampled = FALSE
    /\ status = <<>>
    /\ first = <<>>

Init == Construct(DefaultCal)

\* Outputs of an operation that emits nothing and is not a tick
Quiet(name, response) ==
    /\ out' = <<>>
    /\ runout' = <<>>
    /\ logged' = FALSE
    /\ ack' = response
    /\ op' = name
    /\ tick' = NoLocals
    /\ status' = <<>>
    /\ UNCHANGED lastM221

\* Outputs of a command that emits M221 S<m>
Emit(name, response, m) ==
    /\ out' = <<m>>
    /\ lastM221' = <<m>>
    /\ runout' = <<>>
    /\ logged' = FALSE
    /\ ack' = response
    /\ op' = name
    /\ tick' = NoLocals
    /\ status' = <<>>

\* ------------------------------------------------------------------------
\* Operations
\* ------------------------------------------------------------------------
\* klippy:ready, delivered once
handle_ready ==
    /\ ~toolhead
    /\ toolhead' = TRUE
    /\ timer' = NOW
    /\ Quiet("ready", "")
    /\ UNCHANGED <<fifo, raw, diameter, enabled, logging, cfg, cal,
                   sampled, first, epos, enableSeen>>

\* faulty variant: samples are taken only while compensation is enabled
adc_callback_WhenEnabled(k) ==
    /\ enabled
    /\ raw' = ScaleRaw(k)
    /\ diameter' = Interpolate(cal.diameter_1, cal.diameter_2,
                               cal.raw_1, cal.raw_2, ScaleRaw(k))
    /\ sampled' = TRUE
    /\ Quiet("adc", "")
    /\ UNCHANGED <<fifo, enabled, logging, timer, toolhead, cfg, epos, enableSeen,
                   cal, first>>

adc_callback(k) ==
    /\ raw' = ScaleRaw(k)
    /\ diameter' = Interpolate(cal.diameter_1, cal.diameter_2,
                               cal.raw_1, cal.raw_2, ScaleRaw(k))
    /\ sampled' = TRUE
    /\ Quiet("adc", "")
    /\ UNCHANGED <<fifo, enabled, logging, timer, toolhead, cfg, epos, enableSeen,
                   cal, first>>

\* the toolhead moves the extruder (advance or retraction)
Move(p) ==
    /\ toolhead
    /\ p # epos
    /\ epos' = p
    /\ Quiet("move", "")
    /\ UNCHANGED <<fifo, raw, diameter, enabled, logging, timer, toolhead, cfg, cal,
                   sampled, first,
                   enableSeen>>

\* one time unit passes: a timer due in one unit becomes due now
TimeAdvance ==
    /\ timer = TickInterval
    /\ timer' = NOW
    /\ Quiet("time", "")
    /\ UNCHANGED <<fifo, raw, diameter, enabled, logging, toolhead, cfg, cal,
                   sampled, first, epos,
                   enableSeen>>

timer_callback ==
    /\ timer = NOW
    /\ LET epos_projected == epos + measurement_delay
           q == MaybeEnqueue(fifo, epos_projected, diameter)
           filament_present == FilamentPresent(diameter)
       IN  IF filament_present /\ q = <<>>
           THEN \* self.fifo[0] raises IndexError: the callback does not
                \* return and the reactor stops
                /\ fifo' = q
                /\ out' = <<>>
                /\ UNCHANGED lastM221
                /\ runout' = <<filament_present>>
                /\ logged' = FALSE
                /\ tick' = [NoLocals EXCEPT !.epos = epos, !.present = TRUE,
                                            !.error = TRUE]
                /\ timer' = NEVER
                /\ UNCHANGED first
           ELSE LET reached == HeadReached(q, epos)
                    dtu0 == ResolveDiameter(q, epos, diameter,
                                            cfg.use_current_diameter_while_delay)
                    diameter_to_use == PlausibleOrNominal(dtu0)
                    m == IF filament_present THEN Multiplier(diameter_to_use)
                         ELSE 100
                IN  /\ fifo' = IF filament_present
                               THEN (IF reached THEN Tail(q) ELSE q)
                               ELSE <<>>
                    /\ out' = <<m>>
                    /\ lastM221' = <<m>>
                    /\ runout' = <<filament_present>>
                    /\ logged' = respond_info(q # fifo, logging)
                    /\ tick' = [epos |-> epos, q |-> q, appended |-> (q # fifo),
                                present |-> filament_present,
                                popped |-> IF filament_present /\ reached
                                           THEN <<q[1]>> ELSE <<>>,
                                dtu0 |-> IF filament_present THEN dtu0 ELSE 0,
                                dtu |-> IF filament_present THEN diameter_to_use
                                        ELSE 0,
                                error |-> FALSE]
                    /\ timer' = NextWake(enabled)
                    /\ first' =
                         IF ~filament_present THEN <<>>
                         ELSE IF fifo = <<>>
                         THEN (IF epos >= epos_projected THEN <<>>
                               ELSE << <<epos_projected, diameter>> >>)
                         ELSE IF first # <<>> /\ epos >= first[1][1] THEN <<>>
                         ELSE first
    /\ ack' = ""
    /\ op' = "tick"
    /\ status' = <<>>
    /\ UNCHANGED <<raw, diameter, enabled, logging, toolhead, cfg, cal, sampled,
                   epos, enableSeen>>

\* get_status can be called at any time
get_status ==
    /\ out' = <<>>
    /\ runout' = <<>>
    /\ logged' = FALSE
    /\ ack' = ""
    /\ op' = "status"
    /\ tick' = NoLocals
    /\ status' = <<[diameter |-> diameter, raw |-> raw, enabled |-> enabled]>>
    /\ UNCHANGED <<fifo, raw, diameter, enabled, logging, timer, toolhead, cfg,
                   cal, sampled, first, epos, lastM221, enableSeen>>

\* faulty variant: RESET also cancels the timer
cmd_RESET_StopsTimer ==
    /\ toolhead
    /\ fifo' = <<>>
    /\ first' = <<>>
    /\ timer' = NEVER
    /\ Emit("reset", "Filament diameter measurements cleared!", 100)
    /\ UNCHANGED <<raw, diameter, enabled, logging, toolhead, cfg, cal, sampled,
                   epos, enableSeen>>

\* G-code commands are dispatched only once the printer is ready
cmd_RESET_FILAMENT_DIAMETER_SENSOR ==
    /\ toolhead
    /\ fifo' = <<>>
    /\ first' = <<>>
    /\ Emit("reset", "Filament diameter measurements cleared!", 100)
    /\ UNCHANGED <<raw, diameter, enabled, logging, timer, toolhead, cfg, cal,
                   sampled, epos,
                   enableSeen>>

\* faulty variant: ENABLE does not test whether the sensor is already on
cmd_ENABLE_Unconditional ==
    /\ toolhead
    /\ Quiet("enable", "Filament diameter sensor turned ON")
    /\ enabled' = TRUE
    /\ timer' = NOW
    /\ enableSeen' = TRUE
    /\ UNCHANGED <<fifo, raw, diameter, logging, toolhead, cfg, cal,
                   sampled, first, epos>>

\* faulty variant: ENABLE sets the flag but does not start the timer
cmd_ENABLE_NoTimer ==
    /\ toolhead
    /\ IF enabled
       THEN /\ Quiet("enable", "Filament diameter sensor is already ON")
            /\ UNCHANGED <<enabled, timer, enableSeen>>
       ELSE /\ Quiet("enable", "Filament diameter sensor turned ON")
            /\ enabled' = TRUE
            /\ enableSeen' = TRUE
            /\ UNCHANGED timer
    /\ UNCHANGED <<fifo, raw, diameter, logging, toolhead, cfg, cal,
                   sampled, first, epos>>

cmd_ENABLE_FILAMENT_DIAMETER_SENSOR ==
    /\ toolhead
    /\ IF enabled
       THEN /\ Quiet("enable", "Filament diameter sensor is already ON")
            /\ UNCHANGED <<enabled, timer, enableSeen>>
       ELSE /\ Quiet("enable", "Filament diameter sensor turned ON")
            /\ enabled' = TRUE
            /\ timer' = NOW
            /\ enableSeen' = TRUE
    /\ UNCHANGED <<fifo, raw, diameter, logging, toolhead, cfg, cal,
                   sampled, first, epos>>

\* faulty variant: DISABLE clears the flag but leaves the timer scheduled
cmd_DISABLE_KeepTimer ==
    /\ toolhead
    /\ IF ~enabled
       THEN /\ Quiet("disable", "Filament diameter sensor is already OFF")
            /\ UNCHANGED <<enabled, timer, fifo, first>>
       ELSE /\ Emit("disable", "Filament diameter sensor turned OFF", 100)
            /\ enabled' = FALSE
            /\ fifo' = <<>>
            /\ first' = <<>>
            /\ UNCHANGED timer
    /\ UNCHANGED <<raw, diameter, logging, toolhead, cfg, cal,
                   sampled, epos, enableSeen>>

cmd_DISABLE_FILAMENT_DIAMETER_SENSOR ==
    /\ toolhead
    /\ IF ~enabled
       THEN /\ Quiet("disable", "Filament diameter sensor is already OFF")
            /\ UNCHANGED <<enabled, timer, fifo, first>>
       ELSE /\ Emit("disable", "Filament diameter sensor turned OFF", 100)
            /\ enabled' = FALSE
            /\ timer' = NEVER
            /\ fifo' = <<>>
            /\ first' = <<>>
    /\ UNCHANGED <<raw, diameter, logging, toolhead, cfg, cal,
                   sampled, epos, enableSeen>>

\* faulty variant: the logging command also switches the sensor on
cmd_ENABLE_LOG_StartsSensor ==
    /\ toolhead
    /\ logging' = TRUE
    /\ enabled' = TRUE
    /\ timer' = NOW
    /\ Quiet("log_on", "Filament diameter logging turned ON")
    /\ UNCHANGED <<fifo, raw, diameter, toolhead, cfg, cal, sampled, first, epos,
                   enableSeen>>

cmd_ENABLE_FILAMENT_DIAMETER_LOG ==
    /\ toolhead
    /\ logging' = TRUE
    /\ Quiet("log_on", "Filament diameter logging turned ON")
    /\ UNCHANGED <<fifo, raw, diameter, enabled, timer, toolhead, cfg, cal,
                   sampled, first, epos,
                   enableSeen>>

cmd_DISABLE_FILAMENT_DIAMETER_LOG ==
    /\ toolhead
    /\ logging' = FALSE
    /\ Quiet("log_off", "Filament diameter logging turned OFF")
    /\ UNCHANGED <<fifo, raw, diameter, enabled, timer, toolhead, cfg, cal,
                   sampled, first, epos,
                   enableSeen>>

\* The callbacks and commands of the sensor
Controller ==
    \/ handle_ready
    \/ \E k \in Samples : adc_callback(k)
    \/ TimeAdvance
    \/ timer_callback
    \/ get_status
    \/ cmd_RESET_FILAMENT_DIAMETER_SENSOR
    \/ cmd_ENABLE_FILAMENT_DIAMETER_SENSOR
    \/ cmd_DISABLE_FILAMENT_DIAMETER_SENSOR
    \/ cmd_ENABLE_FILAMENT_DIAMETER_LOG
    \/ cmd_DISABLE_FILAMENT_DIAMETER_LOG

\* One step of the system with the extruder moving within the positions P
Step(P) ==
    \/ Controller
    \/ \E p \in P : Move(p)

Next == Step(Positions)

Spec == Init /\ [][Next]_vars

\* Scheduling does not depend on where the extruder is: the fair
\* specification moves it between the start and the first projected position.
LivePositions == {0, measurement_delay}

LiveNext == Step(LivePositions)

\* The reactor runs a due timer and time keeps passing
FairSpec ==
    Init /\ [][LiveNext]_vars /\ WF_vars(timer_callback) /\ WF_vars(TimeAdvance)

\* The extruder only advances (no retraction, no position reset)
Advance(p) == p > epos /\ Move(p)

MonoNext ==
    \/ Controller
    \/ \E p \in 0..MaxAdvance : Advance(p)

MonoSpec == Init /\ [][MonoNext]_vars

\* Calibrations and readings for the Diameter Estimator on its own: anchors
\* with two and with three decimals, ascending and descending raw values
Calibrations ==
    {c \in [diameter_1 : {1500, 1513}, diameter_2 : {2000, 1996, 1750},
            raw_1 : {6250, 8750}, raw_2 : {6250, 7500, 8750}] :
        c.raw_1 # c.raw_2}

CalSamples == {12500, 15000, 15001, 17500}

CalInit == \E c \in Calibrations : Construct(c)

CalNext == \E k \in CalSamples : adc_callback(k)

CalSpec == CalInit /\ [][CalNext]_vars

\* ------------------------------------------------------------------------
\* Properties
\* ------------------------------------------------------------------------
\* consecutive entries are at least measurement_interval apart
Spaced(q) ==
    \A i \in 1..(Len(q) - 1) : q[i + 1][1] - q[i][1] >= measurement_interval

\* m is a nearest integer to (nominal_diameter / d) ^ 2 * 100
NearestPercent(m, d) ==
    LET n == 100 * nominal_diameter * nominal_diameter
    IN  2 * (n - m * d * d) <= d * d /\ 2 * (m * d * d - n) <= d * d

\* the sensor was switched off by a DISABLE command and not switched on since
StoppedByDisable == ~enabled /\ (cfg.enabled \/ enableSeen)

\* C1: rate limiting. In every reachable state (and in the queue as it is
\* right after the enqueue step of a tick) consecutive entries of the delay
\* queue are at least measurement_interval apart, hence strictly ascending;
\* and a tick appends an entry only if the queue was empty or
\* epos + measurement_delay >= tail.projected_position + measurement_interval.
C1_RateLimiting ==
    /\ [](Spaced(fifo) /\ Spaced(tick.q))
    /\ [][(op' = "tick" /\ tick'.q # fifo) =>
            /\ tick'.q = Append(fifo, <<epos + measurement_delay, diameter>>)
            /\ \/ fifo = <<>>
               \/ epos + measurement_delay
                    >= fifo[Len(fifo)][1] + measurement_interval]_vars

C1_Witness ==
    /\ op = "tick" /\ tick.appended
    /\ Len(tick.q) >= 2 /\ Len(fifo) >= 2

\* C2: no early pop. A tick pops only when filament is present and epos has
\* reached the popped entry's projected position; the popped entry is the
\* head of the queue, at most one entry is popped per tick, and its diameter
\* is the tick's diameter_to_use before the plausibility override.
C2_NoEarlyPop ==
    op = "tick" =>
        /\ tick.present => fifo \in {tick.q, Tail(tick.q)}
        /\ (tick.present /\ fifo # tick.q) =>
              /\ tick.epos >= tick.q[1][1]
              /\ tick.popped = <<tick.q[1]>>
              /\ tick.dtu0 = tick.q[1][2]
        /\ tick.popped # <<>> => (tick.present /\ fifo # tick.q)

C2_Witness ==
    /\ op = "tick" /\ tick.popped # <<>>
    /\ Len(tick.q) >= 2 /\ fifo = Tail(tick.q)

\* C3: absence clears the queue. After a tick on which the current diameter
\* is outside [runout_min_diameter, runout_max_diameter] the queue is empty
\* and the tick's extrusion-rate command is exactly 100.
C3_AbsenceClears ==
    (op = "tick" /\ ~(runout_min_diameter <= diameter
                       /\ diameter <= runout_max_diameter)) =>
        /\ fifo = <<>>
        /\ out = <<100>>
        /\ runout = <<FALSE>>

C3_Witness ==
    /\ op = "tick" /\ diameter > runout_max_diameter
    /\ tick.appended /\ Len(tick.q) >= 2 /\ fifo = <<>>

\* C4: fallback correctness. On a tick with filament present, a resolved
\* diameter_to_use outside [min_diameter, max_diameter] gives multiplier 100;
\* and every multiplier ever emitted is round((nominal_diameter/d)^2*100) for
\* some d with min_diameter <= d <= max_diameter.
C4_Fallback ==
    /\ (op = "tick" /\ tick.present
          /\ ~(min_diameter <= tick.dtu0 /\ tick.dtu0 <= max_diameter)) =>
            out = <<100>>
    /\ lastM221 # <<>> =>
            \E d \in min_diameter..max_diameter : NearestPercent(lastM221[1], d)
    /\ out # <<>> => lastM221 = out

C4_Witness ==
    /\ op = "tick" /\ tick.present /\ tick.popped # <<>>
    /\ tick.dtu0 < min_diameter /\ out = <<100>>

\* C5: with enabled configured false, no tick executes from startup until
\* the first ENABLE command: no tick emits an extrusion-rate command, forwards
\* a runout notification or enqueues an entry in that period.
C5_StoppedUntilEnabled ==
    (~cfg.enabled /\ ~enableSeen) =>
        /\ op # "tick"
        /\ out = <<>> /\ runout = <<>> /\ fifo = <<>>

\* C6: DISABLE executed while enabled leaves enabled false, the queue empty
\* and 100 as the emitted extrusion-rate command; from then until the next
\* ENABLE no tick executes, the queue stays empty and the last emitted
\* extrusion-rate command stays 100.
C6_DisableStops ==
    /\ [][(enabled /\ op' = "disable") =>
            (~enabled' /\ fifo' = <<>> /\ out' = <<100>> /\ timer' = NEVER)]_vars
    /\ [](StoppedByDisable =>
            (op # "tick" /\ fifo = <<>> /\ timer = NEVER /\ lastM221 = <<100>>))

C6_Witness ==
    /\ StoppedByDisable /\ op = "adc" /\ FilamentPresent(diameter)
    /\ lastM221 = <<100>>

\* C7: a DISABLE issued when already disabled and an ENABLE issued when
\* already enabled change neither enabled, the queue, the logging flag nor
\* the timer and emit no extrusion-rate command; they only acknowledge.
\* After any DISABLE enabled is false.
C7_Idempotent ==
    /\ [][((~enabled /\ op' = "disable") \/ (enabled /\ op' = "enable")) =>
            /\ UNCHANGED <<enabled, fifo, logging, timer, lastM221>>
            /\ out' = <<>>
            /\ ack' \in {"Filament diameter sensor is already OFF",
                          "Filament diameter sensor is already ON"}]_vars
    /\ [](op = "disable" => ~enabled)

C7_Witness ==
    /\ op = "disable" /\ ack = "Filament diameter sensor is already OFF"
    /\ ~enabled /\ lastM221 # <<100>>

\* C8: a tick that ends with enabled = true schedules the next tick exactly
\* one time unit later, one that ends with enabled = false schedules none;
\* while enabled stays true every tick is eventually followed by another.
C8_Reschedule ==
    /\ [](op = "tick" => timer = IF enabled THEN 1 ELSE NEVER)
    /\ ((op = "tick" /\ enabled) ~> (~enabled \/ timer = NOW))
    /\ ((enabled /\ timer = NOW) ~> (~enabled \/ op = "tick"))

C8_Witness == op = "tick" /\ enabled /\ timer = 1 /\ fifo # <<>>

\* C9: ENABLE executed while disabled sets enabled, requests an immediate
\* tick, leaves the queue unchanged and emits no extrusion-rate command; a
\* tick then eventually executes unless a DISABLE intervenes; the timer is
\* the only pending schedule.
C9_EnableStarts ==
    /\ [][(~enabled /\ op' = "enable") =>
            /\ enabled' /\ timer' = NOW
            /\ fifo' = fifo /\ out' = <<>> /\ lastM221' = lastM221]_vars
    /\ ((op = "enable" /\ enabled) ~> (op = "tick" \/ ~enabled))
    /\ [](timer \in {NEVER, NOW, 1} /\ (enabled /\ toolhead => timer # NEVER))

C9_Witness ==
    /\ op = "enable" /\ ack = "Filament diameter sensor turned ON"
    /\ enabled /\ timer = NOW /\ fifo # <<>>

\* C10: on a tick with filament present whose head entry has not been
\* reached (epos < head.projected_position), the queue is not popped and
\* diameter_to_use is nominal_diameter (multiplier 100) when
\* use_current_diameter_while_delay is false and the live diameter reading
\* (subject to the plausibility override) when it is true.
C10_DelayPhase ==
    (op = "tick" /\ tick.present /\ tick.epos < tick.q[1][1]) =>
        /\ fifo = tick.q /\ tick.popped = <<>>
        /\ ~cfg.use_current_diameter_while_delay =>
              (tick.dtu0 = nominal_diameter /\ out = <<100>>)
        /\ cfg.use_current_diameter_while_delay =>
              /\ tick.dtu0 = diameter
              /\ Len(out) = 1
              /\ NearestPercent(out[1],
                        IF min_diameter <= diameter /\ diameter <= max_diameter
                        THEN diameter ELSE nominal_diameter)

C10_Witness ==
    /\ op = "tick" /\ tick.present /\ tick.epos < tick.q[1][1]
    /\ cfg.use_current_diameter_while_delay
    /\ tick.appended /\ Len(tick.q) = 1
    /\ tick.dtu0 # nominal_diameter /\ out # <<100>>

\* C11: round trip through the delay queue. An entry (p, d) that a tick
\* enqueues into an empty queue stays the head until the queue is cleared
\* or until the first later tick with filament present and epos >= p; that
\* tick pops exactly this entry and resolves diameter_to_use to d, whatever
\* was sampled or enqueued in between and however the extruder moved.
C11_RoundTrip ==
    /\ [](first # <<>> => (fifo # <<>> /\ fifo[1] = first[1]))
    /\ [][(op' = "tick" /\ fifo = <<>> /\ fifo' # <<>>) =>
            first' = << <<epos + measurement_delay, diameter>> >>]_vars
    /\ [][(op' = "tick" /\ first # <<>> /\ epos >= first[1][1]
            /\ runout_min_diameter <= diameter
            /\ diameter <= runout_max_diameter) =>
            /\ tick'.popped = first
            /\ tick'.dtu0 = first[1][2]
            /\ fifo' = Tail(tick'.q)
            /\ first' = <<>>]_vars

C11_Witness ==
    /\ op = "tick" /\ tick.popped # <<>> /\ first = <<>>
    /\ tick.epos = tick.popped[1][1]
    /\ tick.dtu0 # diameter /\ tick.dtu0 = tick.popped[1][2]
    /\ tick.epos = measurement_delay /\ fifo # <<>>

\* d is the anchor diameter a rounded to two decimals (a multiple of 10 in
\* 1/1000 mm, at most half a hundredth away from a)
RoundedAnchor(d, a) ==
    /\ d % 10 = 0
    /\ d - a <= 5 /\ a - d <= 5
    /\ (a % 10 = 0 => d = a)

\* C12 as stated: for every calibration with raw_1 # raw_2 a sample whose
\* scaled raw value is raw_1 gives exactly diameter_1, and one whose scaled
\* raw value is raw_2 gives exactly diameter_2.
C12_AnchorsExact ==
    op = "adc" =>
        /\ raw = cal.raw_1 => diameter = cal.diameter_1
        /\ raw = cal.raw_2 => diameter = cal.diameter_2

\* C12 amended: a sample whose scaled raw value is raw_1 (raw_2) gives
\* diameter_1 (diameter_2) rounded to two decimals, which is the anchor
\* itself when the anchor has at most two decimals; with anchors
\* (6250, 1.5), (8750, 2.0) a raw value of 7500 gives 1.75.
C12_AnchorsRounded ==
    op = "adc" =>
        /\ raw = cal.raw_1 => RoundedAnchor(diameter, cal.diameter_1)
        /\ raw = cal.raw_2 => RoundedAnchor(diameter, cal.diameter_2)
        /\ (cal = DefaultCal /\ raw = 7500) => diameter = 1750

C12_Witness ==
    /\ op = "adc" /\ raw = cal.raw_2 /\ cal.raw_2 < cal.raw_1
    /\ cal.diameter_2 = 2000 /\ diameter = 2000
    /\ cal.diameter_1 = 1513

\* the queue, runout notification, multiplier and wake time that a tick
\* produces, written as a function of the state without the logging flag
TickIgnoresLogging ==
    LET p == epos + measurement_delay
        q == IF fifo = <<>> \/ p >= fifo[Len(fifo)][1] + measurement_interval
             THEN fifo \o << <<p, diameter>> >> ELSE fifo
        present == runout_min_diameter <= diameter
                   /\ diameter <= runout_max_diameter
        pop == epos >= q[1][1]
        d0 == IF pop THEN q[1][2]
              ELSE IF cfg.use_current_diameter_while_delay THEN diameter
              ELSE nominal_diameter
        d == IF min_diameter <= d0 /\ d0 <= max_diameter THEN d0
             ELSE nominal_diameter
    IN  /\ fifo' = IF present THEN (IF pop THEN Tail(q) ELSE q) ELSE <<>>
        /\ runout' = <<present>>
        /\ Len(out') = 1
        /\ IF present THEN NearestPercent(out'[1], d) ELSE out'[1] = 100
        /\ lastM221' = out'
        /\ timer' = IF enabled THEN 1 ELSE NEVER
        /\ UNCHANGED <<enabled, logging, raw, diameter>>

\* C13: the logging commands set the logging flag and change nothing else
\* (enabled, queue, sample reading, timer; no extrusion-rate command); and
\* the logging flag does not influence the controller: what a tick does to
\* the queue, the runout notification, the multiplier and the timer is a
\* function of the rest of the state alone.
C13_LoggingOnly ==
    /\ [][(op' \in {"log_on", "log_off"}) =>
            /\ logging' = (op' = "log_on")
            /\ UNCHANGED <<enabled, fifo, raw, diameter, timer, lastM221,
                           toolhead, epos>>
            /\ out' = <<>> /\ runout' = <<>>]_vars
    /\ [][(op' = "tick") => TickIgnoresLogging]_vars

C13_Witness ==
    /\ op = "log_off" /\ ~logging /\ enabled /\ timer = 1
    /\ fifo # <<>> /\ lastM221 # <<100>>

\* C14: RESET leaves the queue empty and emits an extrusion-rate command of
\* exactly 100, and leaves enabled, the logging flag, the sample reading and
\* the timer unchanged: a running controller ticks again after a RESET
\* (unless disabled first) and a stopped one stays stopped.
C14_ResetTransient ==
    /\ [][(op' = "reset") =>
            /\ fifo' = <<>> /\ out' = <<100>> /\ lastM221' = <<100>>
            /\ UNCHANGED <<enabled, logging, raw, diameter, timer>>]_vars
    /\ ((op = "reset" /\ enabled) ~> (op = "tick" \/ ~enabled))
    /\ []((op = "reset" /\ StoppedByDisable) => timer = NEVER)

C14_Witness ==
    /\ op = "reset" /\ enabled /\ timer = 1 /\ logging
    /\ diameter = 1800 /\ fifo = <<>> /\ out = <<100>>

\* C15: a sensor sample is accepted and updates raw and diameter whether
\* enabled is true or false; the sensor callback changes neither the queue,
\* enabled, the logging flag nor the timer and emits no extrusion-rate
\* command; every tick (so also the first one after a re-ENABLE) works on the
\* reading of the most recent sample.
C15_EstimatorIndependent ==
    /\ [](\A k \in Samples : ENABLED adc_callback(k))
    /\ [][(op' = "adc") =>
            /\ \E k \in Samples :
                  /\ raw' = ScaleRaw(k)
                  /\ diameter' = Interpolate(cal.diameter_1, cal.diameter_2,
                                             cal.raw_1, cal.raw_2, raw')
            /\ out' = <<>>
            /\ UNCHANGED <<fifo, enabled, logging, timer, lastM221>>]_vars
    /\ [](sampled => diameter = Interpolate(cal.diameter_1, cal.diameter_2,
                                            cal.raw_1, cal.raw_2, raw))
    /\ [](op = "tick" =>
            /\ runout = <<FilamentPresent(diameter)>>
            /\ tick.appended => tick.q[Len(tick.q)][2] = diameter)

\* a sample taken while disabled is the reading the first tick after the
\* re-ENABLE enqueued
C15_Witness ==
    /\ op = "tick" /\ tick.appended /\ enableSeen /\ cfg.enabled
    /\ Len(tick.q) = 1 /\ tick.q[1][2] = 1800 /\ first # <<>>

\* C16: with a non-decreasing extruder position, after a tick has popped an
\* entry no entry remaining in the queue has a projected position that the
\* extruder has already reached.
C16_PopLeavesNoReached ==
    (op = "tick" /\ tick.popped # <<>>) =>
        \A i \in 1..Len(fifo) : fifo[i][1] > tick.epos

\* C17: with a non-decreasing extruder position, the queue holds at most
\* measurement_delay \div measurement_interval + 1 entries at the end of
\* every tick; a tick appends at most one entry, and a present tick that does
\* not pop leaves only entries with projected positions in
\* (epos, epos + measurement_delay].
QueueBound == measurement_delay \div measurement_interval + 1

C17_BoundedQueue ==
    /\ [](op = "tick" =>
            /\ Len(fifo) <= QueueBound
            /\ (tick.present /\ ~tick.error /\ tick.popped = <<>>) =>
                 \A i \in 1..Len(fifo) :
                    /\ fifo[i][1] > tick.epos
                    /\ fifo[i][1] <= tick.epos + measurement_delay)
    /\ [][(op' = "tick") => Len(tick'.q) <= Len(fifo) + 1]_vars

\* the queue is at its bound after a tick that appended and popped
C17_Witness ==
    /\ op = "tick" /\ Len(fifo) = QueueBound
    /\ tick.appended /\ tick.popped # <<>> /\ Len(tick.q) = QueueBound + 1

\* C18 as stated: on each tick the diameter is reported if and only if the
\* logging flag is on, whether or not the tick appended an entry.
C18_LoggedIffFlag ==
    (op = "tick" /\ ~tick.error) => (logged = logging)

\* C18: on each tick the diameter is reported if and only if the logging
\* flag is on and the tick appended an entry to the queue.
C18_LoggedIffAppended ==
    (op = "tick" /\ ~tick.error) => (logged = (logging /\ tick.appended))

\* a tick with logging on that did not append and did not report
C18_Witness ==
    /\ op = "tick" /\ logging /\ tick.present /\ ~tick.appended
    /\ ~logged /\ Len(fifo) = 2

\* C19: whenever a tick reaches the head check of its filament-present
\* branch the queue is non-empty, so reading the head never fails; this
\* includes the tick that directly follows a RESET, a DISABLE or ENABLE, or
\* an absent tick that cleared the queue.
C19_HeadValid ==
    /\ [](op = "tick" => (~tick.error /\ (tick.present => tick.q # <<>>)))
    /\ [][(fifo = <<>> /\ op' = "tick" /\ tick'.present) =>
            (tick'.appended /\ Len(tick'.q) = 1 /\ ~tick'.error)]_vars

\* a present tick that found the queue empty with the extruder already
\* advanced, and did not pop
C19_Witness ==
    /\ op = "tick" /\ tick.present /\ tick.appended /\ Len(tick.q) = 1
    /\ tick.epos > 0 /\ enableSeen /\ tick.popped = <<>> /\ fifo = tick.q

\* C20: until the first sensor sample arrives the diameter and raw are 0
\* (not nominal_diameter); every tick in that period reports filament absent,
\* emits multiplier 100 and leaves the queue empty, and the status snapshot
\* reports diameter 0 and raw 0.
C20_BeforeFirstSample ==
    ~sampled =>
        /\ diameter = 0 /\ raw = 0 /\ fifo = <<>>
        /\ runout_min_diameter > 0
        /\ op = "tick" =>
              (runout = <<FALSE>> /\ out = <<100>> /\ ~tick.present /\ ~tick.error)
        /\ op = "status" =>
              (status[1].diameter = 0 /\ status[1].raw = 0)

\* an absent tick before the first sample, with the sensor enabled
C20_Witness ==
    /\ ~sampled /\ op = "tick" /\ enabled /\ timer = TickInterval
    /\ runout = <<FALSE>> /\ out = <<100>> /\ tick.appended
====
